---- MODULE Spec2Model ----
(***************************************************************************)
(* Verification model of notemancy-server:                                 *)
(*   - the file tree builder of src/utils.rs (TreeSpec),                   *)
(*   - the MeiliSearch synchroniser of src/search.rs (Spec),               *)
(*   - the frontmatter extraction of note_content in src/main.rs           *)
(*     (NoteSpec),                                                         *)
(*   - extract_snippet of src/search.rs (SnippetSpec).                     *)
(* Strings the code slices or compares are sequences of character codes;   *)
(* Option<T> is <<>> for None and <<x>> for Some(x).                       *)
(***************************************************************************)
EXTENDS Integers, Sequences, FiniteSets, TLC

VARIABLES
    vault,        \* the vault directory: entries in directory (read_dir) order
    treeResult,   \* what the last build_file_tree call returned
    clientInit,   \* MEILI_CLIENT holds a client
    mainNotes,    \* the notes of the "main" vault (list_notes), by relpath
    index,        \* the documents of the remote index "notes", by id
    settings,     \* the settings the remote index has applied
    queue,        \* the remote engine's enqueued tasks, oldest first
    lastOp,       \* the last search operation and what it returned
    raw,          \* the bytes of the note file GET /notes/content reads
    noteResult,   \* what note_content returned for it
    text,         \* the content handed to extract_snippet
    query,        \* the query handed to extract_snippet
    snippet       \* what extract_snippet returned

treeVars == <<vault, treeResult>>
searchVars == <<clientInit, mainNotes, index, settings, queue, lastOp>>
noteVars == <<raw, noteResult>>
snippetVars == <<text, query, snippet>>
vars == <<vault, treeResult, clientInit, mainNotes, index, settings, queue,
          lastOp, raw, noteResult, text, query, snippet>>

(***************************************************************************)
(* Characters and strings.                                                 *)
(***************************************************************************)
Dot == 46

\* str::to_lowercase on one character (the model's alphabet is ASCII).
ToLowerChar(c) == IF c >= 65 /\ c <= 90 THEN c + 32 ELSE c

\* str::to_lowercase
ToLowercase(s) == [i \in 1..Len(s) |-> ToLowerChar(s[i])]

\* Ord::cmp on strings: lexicographic, a proper prefix is smaller.
RECURSIVE StrCmp(_, _)
StrCmp(a, b) ==
    IF a = <<>> /\ b = <<>> THEN "Equal"
    ELSE IF a = <<>> THEN "Less"
    ELSE IF b = <<>> THEN "Greater"
    ELSE IF Head(a) < Head(b) THEN "Less"
    ELSE IF Head(a) > Head(b) THEN "Greater"
    ELSE StrCmp(Tail(a), Tail(b))

\* "a.md", "B.Markdown", "c.txt"
NameAMd == <<97, 46, 109, 100>>
NameBMarkdown == <<66, 46, 77, 97, 114, 107, 100, 111, 119, 110>>
NameCTxt == <<99, 46, 116, 120, 116>>
ExtMd == <<109, 100>>
ExtMarkdown == <<109, 97, 114, 107, 100, 111, 119, 110>>

NameSet == {NameAMd, NameBMarkdown, NameCTxt}

(***************************************************************************)
(* The vault on disk.  Entry i of the sequence is a directory entry:       *)
(* parent is the entry of the directory holding it (0: the vault root),    *)
(* kind is "file", "dir" or "link"; a link's target is a directory entry   *)
(* or 0 for the vault root.                                                *)
(***************************************************************************)
MaxEntries == 4
SymlinkLimit == 2

Root == 0

EntryIds(v) == 1..Len(v)

DirIds(v) == {Root} \cup {i \in EntryIds(v) : v[i].kind = "dir"}

NameTaken(v, parent, name) ==
    \E i \in EntryIds(v) : v[i].parent = parent /\ v[i].name = name

\* The number of symbolic links among the components of a path.
LinksIn(v, path) == Cardinality({k \in 1..Len(path) : v[path[k]].kind = "link"})

\* fs::metadata(path): follows symbolic links; path resolution gives up
\* (ELOOP) once it has followed more than SymlinkLimit links.
Metadata(v, path) ==
    IF LinksIn(v, path) > SymlinkLimit THEN "err"
    ELSE IF v[path[Len(path)]].kind = "file" THEN "file"
    ELSE "dir"

\* The directory a path resolves to (its canonical directory).
Canonical(v, path) ==
    IF path = <<>> THEN Root
    ELSE LET e == v[path[Len(path)]]
         IN IF e.kind = "link" THEN e.target ELSE path[Len(path)]

RECURSIVE IdsFrom(_, _, _)
IdsFrom(v, d, i) ==
    IF i > Len(v) THEN <<>>
    ELSE IF v[i].parent = d THEN <<i>> \o IdsFrom(v, d, i + 1)
    ELSE IdsFrom(v, d, i + 1)

\* fs::read_dir(path): the entries of the directory, in directory order.
ReadDir(v, path) == IdsFrom(v, Canonical(v, path), 1)

\* Path::extension: the part of the file name after its last dot; none when
\* the name has no dot or only a leading one.
LastDot(name) ==
    LET dots == {i \in 1..Len(name) : name[i] = Dot}
    IN IF dots = {} THEN 0 ELSE CHOOSE i \in dots : \A j \in dots : j <= i

Extension(name) ==
    IF LastDot(name) <= 1 THEN <<>>
    ELSE SubSeq(name, LastDot(name) + 1, Len(name))

\* The extension test without the case folding.
IsMarkdownNoFold(name) ==
    Extension(name) = ExtMd \/ Extension(name) = ExtMarkdown

\* utils.rs: extension == "md" || extension == "markdown", case-folded.
IsMarkdown(name) ==
    LET extension == ToLowercase(Extension(name))
    IN extension = ExtMd \/ extension = ExtMarkdown

\* path.strip_prefix(root): the names of the components below the root.
Relpath(v, path) == [k \in 1..Len(path) |-> v[path[k]].name]

\* core_utils::get_title(..).unwrap_or_else(|_| ""): the stored title, or
\* the empty string when the lookup fails.
GetTitle(v, path) == <<>>

(***************************************************************************)
(* TreeNode and sort_nodes.                                                *)
(***************************************************************************)
DirNode(name, children) ==
    [name |-> name, is_dir |-> TRUE, relpath |-> <<>>, title |-> <<>>,
     children |-> <<children>>]

FileNode(name, relpath, title) ==
    [name |-> name, is_dir |-> FALSE, relpath |-> <<relpath>>,
     title |-> <<title>>, children |-> <<>>]

\* The comparator without the case folding.
CompareCaseSensitive(a, b) ==
    IF a.is_dir /\ ~b.is_dir THEN "Less"
    ELSE IF ~a.is_dir /\ b.is_dir THEN "Greater"
    ELSE StrCmp(a.name, b.name)

\* The comparator of sort_nodes.
Compare(a, b) ==
    IF a.is_dir /\ ~b.is_dir THEN "Less"
    ELSE IF ~a.is_dir /\ b.is_dir THEN "Greater"
    ELSE StrCmp(ToLowercase(a.name), ToLowercase(b.name))

\* Vec::sort_by is a stable sort: x goes after every element not greater.
RECURSIVE InsertSorted(_, _)
InsertSorted(x, s) ==
    IF s = <<>> THEN <<x>>
    ELSE IF Compare(x, Head(s)) = "Less" THEN <<x>> \o s
    ELSE <<Head(s)>> \o InsertSorted(x, Tail(s))

RECURSIVE SortBy(_)
SortBy(s) ==
    IF s = <<>> THEN <<>>
    ELSE InsertSorted(s[Len(s)], SortBy(SubSeq(s, 1, Len(s) - 1)))

RECURSIVE SortNodes(_)
SortNodes(nodes) ==
    LET sorted == SortBy(nodes)
    IN [i \in 1..Len(sorted) |->
          IF sorted[i].children # <<>>
          THEN [sorted[i] EXCEPT !.children = <<SortNodes(sorted[i].children[1])>>]
          ELSE sorted[i]]

(***************************************************************************)
(* build_tree_node and build_file_tree.  A call returns                    *)
(*   ok     - FALSE when an I/O error was propagated with `?`,             *)
(*   node   - the Option<TreeNode> (for a list of entries: the nodes),     *)
(*   visits - the canonical directories it called read_dir on, in order.   *)
(***************************************************************************)
RECURSIVE BuildTreeNode(_, _)
RECURSIVE BuildChildren(_, _, _, _, _)

\* The loop `for entry in fs::read_dir(path)?` with its early return.
BuildChildren(v, path, ids, children, visits) ==
    IF ids = <<>> THEN [ok |-> TRUE, node |-> children, visits |-> visits]
    ELSE LET r == BuildTreeNode(v, Append(path, Head(ids)))
         IN IF ~r.ok
            THEN [ok |-> FALSE, node |-> <<>>, visits |-> visits \o r.visits]
            ELSE BuildChildren(v, path, Tail(ids), children \o r.node,
                               visits \o r.visits)

BuildTreeNode(v, path) ==
    LET name == v[path[Len(path)]].name
        metadata == Metadata(v, path)
    IN IF metadata = "err" THEN [ok |-> FALSE, node |-> <<>>, visits |-> <<>>]
       ELSE IF metadata = "dir"
       THEN LET r == BuildChildren(v, path, ReadDir(v, path), <<>>,
                                   <<Canonical(v, path)>>)
            IN IF ~r.ok THEN r
               ELSE IF r.node = <<>>
               THEN [ok |-> TRUE, node |-> <<>>, visits |-> r.visits]
               ELSE [ok |-> TRUE,
                     node |-> <<DirNode(name, SortNodes(r.node))>>,
                     visits |-> r.visits]
       ELSE IF IsMarkdown(name)
       THEN [ok |-> TRUE,
             node |-> <<FileNode(name, Relpath(v, path), GetTitle(v, path))>>,
             visits |-> <<>>]
       ELSE [ok |-> TRUE, node |-> <<>>, visits |-> <<>>]

BuildFileTree(v) ==
    LET r == BuildChildren(v, <<>>, ReadDir(v, <<>>), <<>>, <<Root>>)
        nodes == SortNodes(r.node)
    IN IF ~r.ok
       THEN [status |-> "Err", error |-> "io", nodes |-> <<>>, visits |-> r.visits]
       ELSE IF nodes = <<>>
       THEN [status |-> "Err", error |-> "Vault directory is empty",
             nodes |-> <<>>, visits |-> r.visits]
       ELSE [status |-> "Ok", error |-> "", nodes |-> nodes, visits |-> r.visits]

NoTree == [status |-> "none", error |-> "", nodes |-> <<>>, visits |-> <<>>]

(***************************************************************************)
(* Byte strings: str::starts_with, str::find, slicing, trimming.           *)
(* Offsets are byte offsets counted from 0, as in the code.  The alphabet  *)
(* is ASCII and the two-byte character e-acute (195, 169).                 *)
(***************************************************************************)
Marker == <<45, 45, 45>>
ClosingMarker == <<10, 45, 45, 45, 10>>
Ellipsis == <<46, 46, 46>>
EAcute == <<195, 169>>
Whitespace == {32, 10}

StartsWith(s, pat) == Len(s) >= Len(pat) /\ SubSeq(s, 1, Len(pat)) = pat

\* str::find: the byte offset of the first occurrence, -1 for None.
Find(s, pat) ==
    LET at == {i \in 0..(Len(s) - Len(pat)) : SubSeq(s, i + 1, i + Len(pat)) = pat}
    IN IF at = {} THEN -1 ELSE CHOOSE i \in at : \A j \in at : i <= j

\* str::is_char_boundary
IsCharBoundary(s, i) ==
    \/ i = 0
    \/ i = Len(s)
    \/ i > 0 /\ i < Len(s) /\ ~(s[i + 1] >= 128 /\ s[i + 1] <= 191)

\* &s[a..b]: panics unless a <= b <= len and both lie on character boundaries.
Slice(s, a, b) ==
    IF a <= b /\ b <= Len(s) /\ IsCharBoundary(s, a) /\ IsCharBoundary(s, b)
    THEN [ok |-> TRUE, val |-> SubSeq(s, a + 1, b)]
    ELSE [ok |-> FALSE, val |-> <<>>]

RECURSIVE TrimStart(_)
TrimStart(s) ==
    IF s # <<>> /\ Head(s) \in Whitespace THEN TrimStart(Tail(s)) ELSE s

RECURSIVE TrimEnd(_)
TrimEnd(s) ==
    IF s # <<>> /\ s[Len(s)] \in Whitespace
    THEN TrimEnd(SubSeq(s, 1, Len(s) - 1)) ELSE s

\* str::trim
Trim(s) == TrimEnd(TrimStart(s))

\* The number of bytes of the character that starts with byte b.
CharWidth(b) == IF b >= 192 THEN 2 ELSE 1

\* text.chars().take(n).collect()
RECURSIVE TakeChars(_, _)
TakeChars(s, n) ==
    IF n = 0 \/ s = <<>> THEN <<>>
    ELSE LET w == IF CharWidth(Head(s)) > Len(s) THEN Len(s) ELSE CharWidth(Head(s))
         IN SubSeq(s, 1, w) \o TakeChars(SubSeq(s, w + 1, Len(s)), n - 1)

\* str::split_whitespace
RECURSIVE SplitWhitespace(_)
SplitWhitespace(s) ==
    LET t == TrimStart(s)
        stops == {i \in 1..Len(t) : t[i] \in Whitespace}
        n == IF stops = {} THEN Len(t)
             ELSE (CHOOSE i \in stops : \A j \in stops : i <= j) - 1
    IN IF t = <<>> THEN <<>>
       ELSE <<SubSeq(t, 1, n)>> \o SplitWhitespace(SubSeq(t, n + 1, Len(t)))

(***************************************************************************)
(* extract_snippet (src/search.rs).                                        *)
(***************************************************************************)
SnippetRadius == 50
PreviewChars == 100

Min(a, b) == IF a < b THEN a ELSE b

\* The loop over the query's words: the least offset at which a word occurs
\* in the lower-cased text, -1 for None.
RECURSIVE BestIndex(_, _, _)
BestIndex(lower_text, words, best_index) ==
    IF words = <<>> THEN best_index
    ELSE LET idx == Find(lower_text, ToLowercase(Head(words)))
         IN BestIndex(lower_text, Tail(words),
                      IF idx = -1 THEN best_index
                      ELSE IF best_index = -1 THEN idx
                      ELSE Min(best_index, idx))

ExtractSnippet(txt, qry) ==
    LET lower_text == ToLowercase(txt)
        words == SplitWhitespace(qry)
        pos == BestIndex(lower_text, words, -1)
    IN IF pos # -1
       THEN LET start == IF pos > SnippetRadius THEN pos - SnippetRadius ELSE 0
                end == Min(Len(txt), pos + SnippetRadius)
                window == Slice(txt, start, end)
            IN IF window.ok
               THEN [status |-> "Ok", val |-> Ellipsis \o Trim(window.val) \o Ellipsis]
               ELSE [status |-> "panic", val |-> <<>>]
       ELSE [status |-> "Ok", val |-> TakeChars(txt, PreviewChars)]

NoSnippet == [status |-> "none", val |-> <<>>]

(***************************************************************************)
(* Frontmatter extraction of note_content (src/main.rs).                   *)
(* A JSON value is [kind, keys]: its kind and, for an object, its keys.    *)
(***************************************************************************)
FmStart == 4
ClosingLen == 5

\* "last_modified"
LastModifiedKey == <<108, 97, 115, 116, 95, 109, 111, 100, 105, 102, 105, 101, 100>>

EmptyObject == [kind |-> "object", keys |-> {}]

\* serde_yaml::from_str::<Value>(fm_str) followed by serde_json::to_value,
\* each failure replaced by json!({}).  On the model's alphabet: an unclosed
\* "[" is a syntax error; "key:" followed by a blank, a line end or the end
\* of the text is a mapping (a mapping with an empty key has no JSON form);
\* "- " starts a sequence; a blank text is null; anything else is a string.
ParseYaml(fm_str) ==
    LET colon == Find(fm_str, <<58>>)
        isKey == /\ colon # -1
                 /\ \/ colon + 1 = Len(fm_str)
                    \/ fm_str[colon + 2] \in Whitespace
    IN IF Find(fm_str, <<91>>) # -1 THEN EmptyObject
       ELSE IF isKey
       THEN IF colon = 0 THEN EmptyObject
            ELSE [kind |-> "object", keys |-> {SubSeq(fm_str, 1, colon)}]
       ELSE IF StartsWith(fm_str, <<45, 32>>) THEN [kind |-> "array", keys |-> {}]
       ELSE IF Trim(fm_str) = <<>> THEN [kind |-> "null", keys |-> {}]
       ELSE [kind |-> "string", keys |-> {}]

\* The insertion of last_modified into the frontmatter value.
InsertLastModified(frontmatter) ==
    IF frontmatter.kind = "object"
    THEN [kind |-> "object", keys |-> frontmatter.keys \cup {LastModifiedKey}]
    ELSE [kind |-> "object", keys |-> {LastModifiedKey}]

NoteResponse(status, frontmatter, content) ==
    [status |-> status, frontmatter |-> frontmatter, content |-> content]

NoNote == NoteResponse("none", [kind |-> "null", keys |-> {}], <<>>)

\* note_content.  readable: get_vault_dir, fs::metadata and read_note
\* succeeded; rw: the text read_note returned.
NoteContent(rw, readable) ==
    IF ~readable THEN NoteResponse("Err", [kind |-> "null", keys |-> {}], <<>>)
    ELSE IF StartsWith(rw, Marker)
    THEN LET end_index == Find(rw, ClosingMarker)
         IN IF end_index # -1
            THEN LET fm_str == Slice(rw, FmStart, end_index)
                     body == Slice(rw, end_index + ClosingLen, Len(rw))
                 IN IF ~fm_str.ok \/ ~body.ok
                    THEN NoteResponse("panic", [kind |-> "null", keys |-> {}], <<>>)
                    ELSE NoteResponse("Ok", InsertLastModified(ParseYaml(fm_str.val)),
                                      body.val)
            ELSE NoteResponse("Ok", InsertLastModified(EmptyObject), rw)
    ELSE NoteResponse("Ok", InsertLastModified(EmptyObject), rw)

\* The note files: an opening, a frontmatter text, a closing and a body.
\* "", "---\n", "---", "----\n", "---e'\n", "--\n"
Openings ==
    {<<>>, Marker \o <<10>>, Marker, Marker \o <<45, 10>>,
     Marker \o EAcute \o <<10>>, <<45, 45, 10>>}
\* "", "k: v", "k:", "k", "[", "- v", ": v", " "
FrontmatterTexts ==
    {<<>>, <<107, 58, 32, 118>>, <<107, 58>>, <<107>>, <<91>>, <<45, 32, 118>>,
     <<58, 32, 118>>, <<32>>}
\* "", "\n---\n", "---\n", "\n---"
Closings == {<<>>, ClosingMarker, Marker \o <<10>>, <<10>> \o Marker}
\* "", "B", "B\n---\nB"
Bodies == {<<>>, <<66>>, <<66>> \o ClosingMarker \o <<66>>}

RawNotes ==
    {o \o f \o c \o b :
        o \in Openings, f \in FrontmatterTexts, c \in Closings, b \in Bodies}

(***************************************************************************)
(* The search synchroniser (src/search.rs) and the remote engine.          *)
(*                                                                         *)
(* A mutating call of the SDK (set_*_attributes, add_documents,            *)
(* delete_document) returns once the engine has enqueued a task for it;    *)
(* the engine runs its tasks later, oldest first, and each one ends        *)
(* succeeded or failed.  search.rs never waits for a task.                 *)
(***************************************************************************)
MaxQueue == 4
PageLimit == 20
SearchLimit == 10

NoteIds == {"n1.md"}

\* crud::read_note("main", relpath, false): the body of the note; each note
\* holds a term of its own.
ReadNote(id) == IF id = "n1.md" THEN "alpha" ELSE "beta"

\* The query strings: the notes' terms and a term no note holds.
Terms == {ReadNote(id) : id \in NoteIds} \cup {"gamma"}

NoteDoc(id, title, content, path) ==
    [id |-> id, title |-> title, content |-> content, path |-> path]

\* A task of the engine; ret is what the operation that issued it returned.
Task(kind, docs, key, ret) ==
    [kind |-> kind, docs |-> docs, key |-> key, ret |-> ret]

\* An operation's record: its name and what it returned; for a resync the
\* notes list_notes gave it and the number of documents it submitted; for a
\* delete the id and the document the index held under it; for a query the
\* query and the ids of the hits.
Op(name, ret, listed, submitted, arg, held, hits) ==
    [name |-> name, ret |-> ret, listed |-> listed, submitted |-> submitted,
     arg |-> arg, held |-> held, hits |-> hits]

NoOp == Op("none", "", {}, 0, "", <<>>, {})

Indexed == {id \in NoteIds : index[id] # <<>>}

(***************************************************************************)
(* The contents and queries extract_snippet is applied to.                 *)
(***************************************************************************)
MaxPad == 52

RECURSIVE Repeat(_, _)
Repeat(unit, n) == IF n = 0 THEN <<>> ELSE unit \o Repeat(unit, n - 1)

PadUnits == {<<120>>, <<32>>, EAcute}
PadLengths == {0, 1, 26, 49, 50, 51, MaxPad}
\* "Fox", "fox", "dog", ""
Middles == {<<70, 111, 120>>, <<102, 111, 120>>, <<100, 111, 103>>, <<>>}
\* "fox", "FOX dog", "cat", "cat  fox", " ", ""
Queries ==
    {<<102, 111, 120>>, <<70, 79, 88, 32, 100, 111, 103>>, <<99, 97, 116>>,
     <<99, 97, 116, 32, 32, 102, 111, 120>>, <<32>>, <<>>}

Texts ==
    {Repeat(u, n) \o m \o Repeat(v, k) :
        u \in PadUnits, n \in PadLengths, m \in Middles,
        v \in {<<120>>, EAcute}, k \in {0, 1, 49, MaxPad}}

(***************************************************************************)
(* The state of a component that a specification leaves alone.             *)
(***************************************************************************)
TreeIdle ==
    /\ vault = <<>>
    /\ treeResult = NoTree

SearchIdle ==
    /\ clientInit = FALSE
    /\ mainNotes = {}
    /\ index = [id \in NoteIds |-> <<>>]
    /\ settings = [searchable |-> FALSE, filterable |-> FALSE]
    /\ queue = <<>>
    /\ lastOp = NoOp

NoteIdle ==
    /\ raw = <<>>
    /\ noteResult = NoNote

SnippetIdle ==
    /\ text = <<>>
    /\ query = <<>>
    /\ snippet = NoSnippet

(***************************************************************************)
(* Spec: the search synchroniser, the remote engine and the vault.         *)
(***************************************************************************)
Init ==
    /\ SearchIdle
    /\ TreeIdle
    /\ NoteIdle
    /\ SnippetIdle

\* A client handle that is taken to be there without looking.
ClientNeverMissing == FALSE

\* MEILI_CLIENT.get().ok_or("MeiliSearch client not initialized")
ClientMissing == ~clientInit

\* init_meilisearch: Client::new may fail; OnceCell::set fails when the cell
\* is already set.
InitMeilisearch(created) ==
    /\ clientInit' = (clientInit \/ created)
    /\ UNCHANGED <<mainNotes, index, settings, queue, lastOp>>
    /\ UNCHANGED <<treeVars, noteVars, snippetVars>>

\* index.get_documents() asks for no page size: the engine returns one page
\* of the index, at most PageLimit documents.
Pages ==
    {page \in SUBSET Indexed :
        Cardinality(page) = IF Cardinality(Indexed) < PageLimit
                            THEN Cardinality(Indexed) ELSE PageLimit}

\* The tasks index_all_notes has enqueued after its settings calls.
SettingsTasks(sOk, fOk, ret) ==
    (IF sOk THEN <<Task("searchable", {}, "", ret)>> ELSE <<>>)
    \o (IF fOk THEN <<Task("filterable", {}, "", ret)>> ELSE <<>>)

\* The body of index_all_notes.  sOk, fOk, gOk, aOk: the HTTP request of the
\* call succeeded; storageOk: list_notes, get_vault_dir and read_note
\* succeeded; page: the ids of the documents get_documents returned.
IndexAllNotesResult(sOk, fOk, gOk, storageOk, aOk, page) ==
    LET existing_ids == page
        to_index == {NoteDoc(id, id, ReadNote(id), id) : id \in mainNotes \ existing_ids}
        ret == IF ~gOk \/ ~storageOk THEN "Err"
               ELSE IF to_index # {} /\ ~aOk THEN "Err"
               ELSE "Ok"
        added == IF gOk /\ storageOk /\ to_index # {} /\ aOk
                 THEN <<Task("add", to_index, "", ret)>> ELSE <<>>
    IN [ret |-> ret,
        listed |-> IF gOk /\ storageOk THEN mainNotes ELSE {},
        tasks |-> SettingsTasks(sOk, fOk, ret) \o added,
        submitted |-> IF added = <<>> THEN 0 ELSE Cardinality(to_index)]

\* index_all_notes
IndexAllNotes(sOk, fOk, gOk, storageOk, aOk, page) ==
    IF ClientMissing
    THEN /\ lastOp' = Op("resync", "NotReady", {}, 0, "", <<>>, {})
         /\ UNCHANGED <<clientInit, mainNotes, index, settings, queue>>
         /\ UNCHANGED <<treeVars, noteVars, snippetVars>>
    ELSE LET r == IndexAllNotesResult(sOk, fOk, gOk, storageOk, aOk, page)
         IN /\ Len(queue) + Len(r.tasks) <= MaxQueue
            /\ queue' = queue \o r.tasks
            /\ lastOp' = Op("resync", r.ret, r.listed, r.submitted, "", <<>>, {})
               /\ UNCHANGED <<clientInit, mainNotes, index, settings>>
            /\ UNCHANGED <<treeVars, noteVars, snippetVars>>

\* update_search_index
UpdateSearchIndex(id, title, path, content, aOk) ==
    IF ClientMissing
    THEN /\ lastOp' = Op("upsert", "NotReady", {}, 0, "", <<>>, {})
         /\ UNCHANGED <<clientInit, mainNotes, index, settings, queue>>
         /\ UNCHANGED <<treeVars, noteVars, snippetVars>>
    ELSE /\ Len(queue) + 1 <= MaxQueue
         /\ queue' = IF aOk
                     THEN Append(queue, Task("add", {NoteDoc(id, title, content, path)},
                                             "", "Ok"))
                     ELSE queue
         /\ lastOp' = Op("upsert", IF aOk THEN "Ok" ELSE "Err", {}, 0, "", <<>>, {})
         /\ UNCHANGED <<clientInit, mainNotes, index, settings>>
         /\ UNCHANGED <<treeVars, noteVars, snippetVars>>

\* delete_from_search_index
DeleteFromSearchIndex(id, dOk) ==
    IF ClientMissing
    THEN /\ lastOp' = Op("delete", "NotReady", {}, 0, "", <<>>, {})
         /\ UNCHANGED <<clientInit, mainNotes, index, settings, queue>>
         /\ UNCHANGED <<treeVars, noteVars, snippetVars>>
    ELSE /\ Len(queue) + 1 <= MaxQueue
         /\ queue' = IF dOk THEN Append(queue, Task("delete", {}, id, "Ok")) ELSE queue
         /\ lastOp' = IF dOk THEN Op("delete", "Ok", {}, 0, id, index[id], {})
                      ELSE Op("delete", "Err", {}, 0, "", <<>>, {})
         /\ UNCHANGED <<clientInit, mainNotes, index, settings>>
         /\ UNCHANGED <<treeVars, noteVars, snippetVars>>

\* The engine's answer to a query: the indexed documents holding the term,
\* at most `limit` of them.
Matches(q) == {id \in Indexed : index[id][1].content = q}

Hits(q, limit) ==
    {h \in SUBSET Matches(q) :
        Cardinality(h) = IF Cardinality(Matches(q)) < limit
                         THEN Cardinality(Matches(q)) ELSE limit}

\* search_notes
SearchNotes(q, hits, qOk) ==
    /\ lastOp' = IF ClientMissing THEN Op("query", "NotReady", {}, 0, "", <<>>, {})
                 ELSE IF ~qOk THEN Op("query", "Err", {}, 0, "", <<>>, {})
                 ELSE Op("query", "Ok", {}, 0, q, <<>>, hits)
    /\ UNCHANGED <<clientInit, mainNotes, index, settings, queue>>
    /\ UNCHANGED <<treeVars, noteVars, snippetVars>>

\* The remote engine runs its oldest task; the task succeeds or fails.
ProcessTask(succeeds) ==
    /\ queue # <<>>
    /\ LET t == Head(queue)
       IN /\ index' = IF succeeds /\ t.kind = "add"
                      THEN [id \in NoteIds |->
                              IF \E d \in t.docs : d.id = id
                              THEN <<CHOOSE d \in t.docs : d.id = id>>
                              ELSE index[id]]
                      ELSE IF succeeds /\ t.kind = "delete"
                      THEN [index EXCEPT ![t.key] = <<>>]
                      ELSE index
          /\ settings' = IF succeeds /\ t.kind = "searchable"
                         THEN [settings EXCEPT !.searchable = TRUE]
                         ELSE IF succeeds /\ t.kind = "filterable"
                         THEN [settings EXCEPT !.filterable = TRUE]
                         ELSE settings
    /\ queue' = Tail(queue)
    /\ UNCHANGED <<clientInit, mainNotes, lastOp>>
    /\ UNCHANGED <<treeVars, noteVars, snippetVars>>

\* A note is written to the vault (POST /notes/upload) or removed from it.
UploadNote(id) ==
    /\ id \notin mainNotes
    /\ mainNotes' = mainNotes \cup {id}
    /\ UNCHANGED <<clientInit, index, settings, queue, lastOp>>
    /\ UNCHANGED <<treeVars, noteVars, snippetVars>>

RemoveNote(id) ==
    /\ id \in mainNotes
    /\ mainNotes' = mainNotes \ {id}
    /\ UNCHANGED <<clientInit, index, settings, queue, lastOp>>
    /\ UNCHANGED <<treeVars, noteVars, snippetVars>>

Resync ==
    \E sOk, fOk, gOk, storageOk, aOk \in BOOLEAN, page \in Pages :
        IndexAllNotes(sOk, fOk, gOk, storageOk, aOk, page)

Startup == \E created \in BOOLEAN : InitMeilisearch(created)

Upsert ==
    \E id \in NoteIds, aOk \in BOOLEAN :
        UpdateSearchIndex(id, id, id, ReadNote(id), aOk)

Delete == \E id \in NoteIds, dOk \in BOOLEAN : DeleteFromSearchIndex(id, dOk)

Query ==
    \E q \in Terms, qOk \in BOOLEAN :
        \E hits \in Hits(q, SearchLimit) : SearchNotes(q, hits, qOk)

Engine == \E succeeds \in BOOLEAN : ProcessTask(succeeds)

VaultChange == \E id \in NoteIds : UploadNote(id) \/ RemoveNote(id)

Next ==
    \/ Startup
    \/ Resync
    \/ Upsert
    \/ Delete
    \/ Query
    \/ Engine
    \/ VaultChange

Spec == Init /\ [][Next]_vars

(***************************************************************************)
(* TreeSpec: the vault changes on disk; GET /notes/tree builds the tree.   *)
(***************************************************************************)
TreeInit ==
    /\ TreeIdle
    /\ SearchIdle
    /\ NoteIdle
    /\ SnippetIdle

WriteFile(parent, name) ==
    /\ Len(vault) < MaxEntries
    /\ ~NameTaken(vault, parent, name)
    /\ vault' = Append(vault, [parent |-> parent, name |-> name,
                               kind |-> "file", target |-> Root])
    /\ treeResult' = NoTree
    /\ UNCHANGED <<searchVars, noteVars, snippetVars>>

MkDir(parent, name) ==
    /\ Len(vault) < MaxEntries
    /\ ~NameTaken(vault, parent, name)
    /\ vault' = Append(vault, [parent |-> parent, name |-> name,
                               kind |-> "dir", target |-> Root])
    /\ treeResult' = NoTree
    /\ UNCHANGED <<searchVars, noteVars, snippetVars>>

Symlink(parent, name, target) ==
    /\ Len(vault) < MaxEntries
    /\ ~NameTaken(vault, parent, name)
    /\ vault' = Append(vault, [parent |-> parent, name |-> name,
                               kind |-> "link", target |-> target])
    /\ treeResult' = NoTree
    /\ UNCHANGED <<searchVars, noteVars, snippetVars>>

NotesTree ==
    /\ treeResult = NoTree
    /\ treeResult' = BuildFileTree(vault)
    /\ UNCHANGED <<vault, searchVars, noteVars, snippetVars>>

CreateFile == \E parent \in DirIds(vault), name \in NameSet : WriteFile(parent, name)

CreateDir == \E parent \in DirIds(vault), name \in NameSet : MkDir(parent, name)

CreateLink ==
    \E parent \in DirIds(vault), name \in NameSet, target \in DirIds(vault) :
        Symlink(parent, name, target)

TreeNext ==
    \/ CreateFile
    \/ CreateDir
    \/ CreateLink
    \/ NotesTree

TreeSpec == TreeInit /\ [][TreeNext]_vars

(***************************************************************************)
(* NoteSpec: GET /notes/content on note files of bounded shape.            *)
(***************************************************************************)
NoteInit ==
    /\ raw \in RawNotes
    /\ noteResult = NoNote
    /\ TreeIdle
    /\ SearchIdle
    /\ SnippetIdle

NoteContentRequest(readable) ==
    /\ noteResult = NoNote
    /\ noteResult' = NoteContent(raw, readable)
    /\ UNCHANGED <<raw, treeVars, searchVars, snippetVars>>

NoteNext == \E readable \in BOOLEAN : NoteContentRequest(readable)

NoteSpec == NoteInit /\ [][NoteNext]_vars

(***************************************************************************)
(* SnippetSpec: extract_snippet on contents and queries of bounded shape.  *)
(***************************************************************************)
SnippetInit ==
    /\ text \in Texts
    /\ query \in Queries
    /\ snippet = NoSnippet
    /\ TreeIdle
    /\ SearchIdle
    /\ NoteIdle

\* search_notes builds the snippet of a hit that has no formatted content.
Snippet ==
    /\ snippet = NoSnippet
    /\ snippet' = ExtractSnippet(text, query)
    /\ UNCHANGED <<text, query, treeVars, searchVars, noteVars>>

SnippetNext == Snippet

SnippetSpec == SnippetInit /\ [][SnippetNext]_vars

(***************************************************************************)
(* Properties of the tree builder.                                         *)
(***************************************************************************)
\* A file name whose extension, case-folded, is md or markdown.
HasMarkdownSuffix(name) ==
    \E e \in {ExtMd, ExtMarkdown} :
        /\ Len(name) > Len(e) + 1
        /\ name[Len(name) - Len(e)] = Dot
        /\ ToLowercase(SubSeq(name, Len(name) - Len(e) + 1, Len(name))) = e

\* The paths below the vault root, as sequences of entries; a path goes on
\* below a directory or a link to one.
\* The entries a path goes on to: those of the directory it resolves to.
Below(v, p) ==
    IF v[p[Len(p)]].kind = "file" THEN {}
    ELSE {j \in EntryIds(v) : v[j].parent = Canonical(v, p)}

RECURSIVE WalkPathsOfLen(_, _)
WalkPathsOfLen(v, n) ==
    IF n = 1 THEN {<<i>> : i \in {j \in EntryIds(v) : v[j].parent = Root}}
    ELSE UNION {{Append(p, i) : i \in Below(v, p)} :
                   p \in WalkPathsOfLen(v, n - 1)}

WalkPaths(v) == UNION {WalkPathsOfLen(v, n) : n \in 1..Len(v)}

IsPrefix(p, q) == Len(p) < Len(q) /\ SubSeq(q, 1, Len(p)) = p

MarkdownBeneath(v, p) ==
    \E q \in WalkPaths(v) :
        /\ IsPrefix(p, q)
        /\ v[q[Len(q)]].kind = "file"
        /\ HasMarkdownSuffix(v[q[Len(q)]].name)

ExpectedDirPaths(v) ==
    {Relpath(v, p) : p \in {q \in WalkPaths(v) :
                               /\ v[q[Len(q)]].kind # "file"
                               /\ MarkdownBeneath(v, q)}}

RECURSIVE TreeDirPaths(_, _)
TreeDirPaths(nodes, prefix) ==
    UNION {IF nodes[i].is_dir
           THEN {Append(prefix, nodes[i].name)}
                \cup TreeDirPaths(nodes[i].children[1], Append(prefix, nodes[i].name))
           ELSE {} : i \in 1..Len(nodes)}

RECURSIVE NoEmptyDirNode(_)
NoEmptyDirNode(nodes) ==
    \A i \in 1..Len(nodes) :
        nodes[i].is_dir =>
            /\ nodes[i].children # <<>>
            /\ nodes[i].children[1] # <<>>
            /\ NoEmptyDirNode(nodes[i].children[1])

\* C1: in the tree build_file_tree returns, a directory is a node iff a file
\* with extension md or markdown (case-folded) lies somewhere beneath it, and
\* no directory node has an empty children list, at any depth.
C1_DirNodeIffMarkdownBeneath ==
    treeResult.status = "Ok" =>
        /\ TreeDirPaths(treeResult.nodes, <<>>) = ExpectedDirPaths(vault)
        /\ NoEmptyDirNode(treeResult.nodes)

\* A tree was returned that holds a directory node, for a vault in which
\* another directory has no markdown beneath it and a markdown file has an
\* upper-case extension.
C1_Witness ==
    /\ treeResult.status = "Ok"
    /\ TreeDirPaths(treeResult.nodes, <<>>) # {}
    /\ \E i \in EntryIds(vault) :
           vault[i].kind = "dir" /\ ~MarkdownBeneath(vault, <<i>>) /\ vault[i].parent = Root
    /\ \E i \in EntryIds(vault) :
           vault[i].kind = "file" /\ vault[i].name = NameBMarkdown

RECURSIVE LevelsSorted(_)
LevelsSorted(nodes) ==
    /\ \A i, j \in 1..Len(nodes) :
           i < j =>
               /\ nodes[i].is_dir \/ ~nodes[j].is_dir
               /\ nodes[i].is_dir = nodes[j].is_dir =>
                      StrCmp(ToLowercase(nodes[i].name),
                             ToLowercase(nodes[j].name)) # "Greater"
    /\ \A i \in 1..Len(nodes) :
           nodes[i].is_dir => LevelsSorted(nodes[i].children[1])

\* C2: at every level of the returned tree the directory nodes precede the
\* file nodes, and within each group the names are in non-descending order
\* compared case-insensitively.
C2_LevelsSorted ==
    treeResult.status = "Ok" => LevelsSorted(treeResult.nodes)

\* A returned top level with a directory in front of two files, where the
\* directory's name sorts after the files' names and the files' case-sensitive
\* order is the reverse of their case-insensitive one.
C2_Witness ==
    /\ treeResult.status = "Ok"
    /\ Len(treeResult.nodes) = 3
    /\ treeResult.nodes[1].is_dir
    /\ ~treeResult.nodes[2].is_dir
    /\ ~treeResult.nodes[3].is_dir
    /\ StrCmp(treeResult.nodes[1].name, treeResult.nodes[3].name) = "Greater"
    /\ StrCmp(treeResult.nodes[2].name, treeResult.nodes[3].name) = "Greater"

\* C8: build_file_tree visits each canonical directory at most once, also in
\* a vault whose symbolic links form a directory cycle.
C8_EachDirectoryVisitedOnce ==
    treeResult.status # "none" =>
        \A i, j \in 1..Len(treeResult.visits) :
            i # j => treeResult.visits[i] # treeResult.visits[j]

(***************************************************************************)
(* Properties of the search synchroniser.                                  *)
(***************************************************************************)
SettingsApplied == settings.searchable /\ settings.filterable

\* C3: a resync that directly follows a successful resync of the same notes
\* submits no document to the remote index.
C3_SecondResyncSubmitsNothing ==
    [][(/\ lastOp.name = "resync"
        /\ lastOp.ret = "Ok"
        /\ lastOp.listed = mainNotes
        /\ Resync)
       => lastOp'.submitted = 0]_vars

\* C4: while the client handle is not initialized, every search operation
\* (resync, upsert, delete, query) ends NotReady, and the remote index has
\* received nothing: no task, no document, no setting.
C4_NotReadyBeforeInit ==
    ~clientInit =>
        /\ lastOp.name \in {"resync", "upsert", "delete", "query"} =>
               lastOp.ret = "NotReady"
        /\ queue = <<>>
        /\ Indexed = {}
        /\ ~settings.searchable /\ ~settings.filterable

\* A resync was refused with NotReady while the vault held a note to index.
C4_Witness ==
    /\ ~clientInit
    /\ mainNotes # {}
    /\ lastOp.name = "resync"
    /\ lastOp.ret = "NotReady"

\* C5: when the engine's task for a mutating call fails, the operation that
\* issued the call has returned an error, never success.
C5_FailedTaskReportedAsError ==
    [][(ProcessTask(FALSE) /\ ~ProcessTask(TRUE)) => Head(queue).ret # "Ok"]_vars

\* C6: a document add, replace or delete is issued only once the settings
\* pushes of the index have ended successfully on the engine.
C6_SettingsBeforeDocuments ==
    [][\A i \in (Len(queue) + 1)..Len(queue') :
          queue'[i].kind \in {"add", "delete"} => SettingsApplied]_vars

\* C7: a query issued after delete_from_search_index(id) has returned
\* success, for a term of the deleted document that no other indexed
\* document holds, returns zero hits.
C7_NoHitAfterDelete ==
    [][(/\ lastOp.name = "delete"
        /\ lastOp.ret = "Ok"
        /\ lastOp.held # <<>>
        /\ lastOp'.name = "query"
        /\ lastOp'.ret = "Ok"
        /\ lastOp'.arg = lastOp.held[1].content
        /\ \A id \in Indexed \ {lastOp.arg} : index[id][1].content # lastOp'.arg)
       => lastOp'.hits = {}]_vars

(***************************************************************************)
(* Properties of note_content and extract_snippet.                         *)
(***************************************************************************)
\* C9: for every note text that could be read, note_content returns a result
\* whose frontmatter is an object holding last_modified; without an opening
\* or a closing marker the object holds only last_modified, and without an
\* opening marker the body is the whole text.
C9_FrontmatterNeverFails ==
    noteResult.status \notin {"none", "Err"} =>
        /\ noteResult.status = "Ok"
        /\ noteResult.frontmatter.kind = "object"
        /\ LastModifiedKey \in noteResult.frontmatter.keys
        /\ (~StartsWith(raw, Marker) \/ Find(raw, ClosingMarker) = -1) =>
               noteResult.frontmatter.keys = {LastModifiedKey}
        /\ ~StartsWith(raw, Marker) => noteResult.content = raw

\* C10: extract_snippet returns a string and never fails, for every content
\* string and every query string.
C10_SnippetNeverFails ==
    snippet.status # "none" => snippet.status = "Ok"

====
